---------------------------- MODULE Spec2Model ----------------------------
(***************************************************************************)
(* A model of eigentools.Eigenproblem (src/eigentools/eigenproblem.py):    *)
(* the dual-resolution solve, the rejection of spurious eigenvalues, the   *)
(* growth-rate query and the pseudospectrum grid.                          *)
(*                                                                         *)
(* Numbers.  An eigenvalue is a complex number in fixed point: its real    *)
(* and imaginary parts are integers counting units of 1e-4, so 1.0001 is   *)
(* 10001 and 100+50j is (1000000, 500000).  A non-finite entry (nan, inf)  *)
(* is the value NaN.  np.abs rounds to the nearest double; Abs below       *)
(* rounds down to the unit.                                                *)
(*                                                                         *)
(* Indices are 0-based as in the code; a TLA+ sequence s holds the array   *)
(* element a[i] at s[i + 1].                                               *)
(***************************************************************************)
EXTENDS Integers, Sequences, FiniteSets

VARIABLES
    reject,           \* self.reject
    use_ordinal,      \* self.use_ordinal
    drift_threshold,  \* self.drift_threshold
    evalues_low,      \* self.evalues_low
    evalues_high,     \* self.evalues_high
    evalues,          \* self.evalues (= self.evalues_good when rejecting)
    evalues_index,    \* self.evalues_index
    solve_raised,     \* how the most recent solve() ended: "" or the exception
    zgrid,            \* the (real, imag) points handed to _pseudo
    Lmat,             \* the matrix handed to _pseudo (1 x 1: its only entry)
    pseudospectrum,   \* the array _pseudo returned
    N,                \* self.N
    target,           \* self.target
    ps,               \* the most recent calc_ps: its k and mu, the shifts used
    calls,            \* how many times calc_ps has been called
    ret               \* the most recent call: its name, exception and value

vars == <<reject, use_ordinal, drift_threshold, evalues_low, evalues_high,
          evalues, evalues_index, solve_raised, zgrid, Lmat, pseudospectrum,
          N, target, ps, calls, ret>>

(***************************************************************************)
(* Bounds of the model.                                                    *)
(***************************************************************************)
\* longest eigenvalue array the rejection engine is explored on
MaxLen == 3
\* most points on either axis of a pseudospectrum grid
MaxGrid == 2
\* largest number of eigenmodes calc_ps is asked for
MaxModes == 2
\* most calc_ps calls made on one Eigenproblem
MaxCalls == 2

(***************************************************************************)
(* Values.                                                                 *)
(***************************************************************************)
Cplx(re, im) == [fin |-> TRUE, re |-> re, im |-> im]

NaN == [fin |-> FALSE, re |-> 0, im |-> 0]

\* np.isfinite
IsFinite(z) == z.fin

CSub(a, b) == Cplx(a.re - b.re, a.im - b.im)

AbsInt(n) == IF n < 0 THEN -n ELSE n

\* Python's None / an attribute holding an array
None == [some |-> FALSE, arr |-> <<>>]

Some(a) == [some |-> TRUE, arr |-> a]

SeqUpTo(n, S) == UNION {[1..k -> S] : k \in 0..n}

(***************************************************************************)
(* np.abs of a complex number: floor(sqrt(re^2 + im^2)), by Newton's       *)
(* iteration.  re^2 + im^2 does not fit a 32-bit integer, so it is kept as *)
(* three limbs in base LimbBase; parts stay below 1 400 000 (140 in the    *)
(* eigenvalue's own scale), which keeps every product in range.            *)
(***************************************************************************)
LimbBase == 1000

\* n^2 for n >= 0, as <<high, middle, low>> limbs
Square(n) ==
    LET h == n \div LimbBase
        l == n % LimbBase
    IN  <<h * h, 2 * h * l, l * l>>

\* x^2 + y^2 as limbs
SumOfSquares(x, y) ==
    LET sx == Square(x)
        sy == Square(y)
    IN  <<sx[1] + sy[1], sx[2] + sy[2], sx[3] + sy[3]>>

\* floor(s / m) for a limb triple s and 0 < m, by long division
LimbDiv(s, m) ==
    LET t1 == (s[1] % m) * LimbBase + s[2]
        t0 == (t1 % m) * LimbBase + s[3]
    IN  ((s[1] \div m) * LimbBase + (t1 \div m)) * LimbBase + (t0 \div m)

\* floor(sqrt(s)) from a guess m >= floor(sqrt(s)), m > 0
RECURSIVE Newton(_, _)
Newton(s, m) ==
    LET next == (m + LimbDiv(s, m)) \div 2
    IN  IF next >= m THEN m ELSE Newton(s, next)

Abs(z) ==
    LET x == AbsInt(z.re)
        y == AbsInt(z.im)
    IN  IF y = 0 THEN x
        ELSE IF x = 0 THEN y
        ELSE Newton(SumOfSquares(x, y),
                    IF x > y THEN x + y \div 2 + 1 ELSE y + x \div 2 + 1)

(***************************************************************************)
(* Eigenproblem._discard_spurious_eigenvalues (lines 325-376).             *)
(***************************************************************************)
\* np.arange(n)
Arange(n) == [i \in 1..n |-> i - 1]

\* ZipWithIndex with the positions counted from 1
ZipWithIndexFromOne(arr) ==
    [i \in 1..Len(arr) |-> <<arr[i], Cplx(Arange(Len(arr))[i] + 1, 0)>>]

\* lines 334-338: np.asarray(list(zip(eval, np.arange(len(eval))))): one row
\* <<eigenvalue, position>> per entry, the position stored as a complex number
\* (the count itself, not in units of 1e-4)
ZipWithIndex(arr) ==
    [i \in 1..Len(arr) |-> <<arr[i], Cplx(Arange(Len(arr))[i], 0)>>]

\* the array np.asarray builds has two axes unless the list was empty
HasColumns(arr) == Len(arr) > 0

\* rows[mask] for a boolean mask
RECURSIVE MaskSelect(_, _)
MaskSelect(rows, mask) ==
    IF rows = <<>> THEN <<>>
    ELSE LET rest == MaskSelect(Tail(rows), Tail(mask))
         IN  IF Head(mask) THEN <<Head(rows)>> \o rest ELSE rest

\* lines 341-342: rows[np.isfinite(eval)]
RemoveNans(arr) ==
    MaskSelect(ZipWithIndex(arr), [i \in 1..Len(arr) |-> IsFinite(arr[i])])

\* one step of the insertion sort np.argsort runs on a short array: the row
\* goes after every row whose real part is not greater (equal keys keep
\* their order)
InsertByReal(sorted, row) ==
    LET k == Cardinality({i \in 1..Len(sorted) : sorted[i][1].re <= row[1].re})
    IN  SubSeq(sorted, 1, k) \o <<row>> \o SubSeq(sorted, k + 1, Len(sorted))

\* SortByReal with the sort left out
Unsorted(rows) == rows

\* lines 345-346: rows[np.argsort(rows[:, 0].real)]
RECURSIVE SortByReal(_)
SortByReal(rows) ==
    IF rows = <<>> THEN <<>>
    ELSE InsertByReal(SortByReal(SubSeq(rows, 1, Len(rows) - 1)), rows[Len(rows)])

\* lines 348-349: rows[:, 0]
Column0(rows) == [i \in 1..Len(rows) |-> rows[i][1]]

\* line 374: rows[:, 1].real.astype(np.int); np.int is the built-in int in the
\* numpy releases that still have np.linalg.linalg and np.int
Column1AsInt(rows) == [i \in 1..Len(rows) |-> rows[i][2].re]

\* lines 352-355, for an array of at least two entries: twice sigmas[j]
\* (the factor 0.5 of line 354 is kept out of the integers)
TwiceSigma(low, j) ==
    IF j = 1 THEN 2 * Abs(CSub(low[1], low[2]))
    ELSE IF j = Len(low) THEN 2 * Abs(CSub(low[Len(low) - 1], low[Len(low)]))
    ELSE Abs(CSub(low[j], low[j - 1])) + Abs(CSub(low[j + 1], low[j]))

\* a float quotient num/den of two non-negative numbers: x/0 is inf, 0/0 is nan
Divide(num, den) ==
    IF den = 0
    THEN [kind |-> IF num = 0 THEN "nan" ELSE "inf", num |-> 0, den |-> 0]
    ELSE [kind |-> "fin", num |-> num, den |-> den]

\* line 361: delta_ordinal[j] = |low[j] - hi[j]| / sigmas[j]
DeltaOrdinal(low, hi, j) ==
    Divide(2 * Abs(CSub(low[j], hi[j])), TwiceSigma(low, j))

\* np.nanmin of a non-empty set of quotients over one denominator
NanMin(q) ==
    IF \E d \in q : d.kind = "fin"
    THEN CHOOSE d \in q : d.kind = "fin" /\ \A e \in q : d.num <= e.num
    ELSE IF \E d \in q : d.kind = "inf" THEN Divide(1, 0)
    ELSE Divide(0, 0)

\* line 364: delta_near[j] = np.nanmin(|low[j] - hi| / sigmas[j]), hi not empty
DeltaNear(low, hi, j) ==
    LET s == TwiceSigma(low, j)
    IN  NanMin({Divide(2 * Abs(CSub(low[j], hi[k])), s) : k \in 1..Len(hi)})

\* InverseDriftExceeds with the comparison turned round
InverseDriftBelow(delta, threshold) ==
    CASE delta.kind = "nan" -> FALSE
      [] delta.kind = "inf" -> 0 < threshold
      [] delta.kind = "fin" ->
            /\ delta.num # 0
            /\ delta.den < threshold * delta.num

\* lines 368-371: 1/delta > drift_threshold (threshold >= 0)
InverseDriftExceeds(delta, threshold) ==
    CASE delta.kind = "nan" -> FALSE
      [] delta.kind = "inf" -> 0 > threshold
      [] delta.kind = "fin" ->
            \/ delta.num = 0
            \/ (delta.den - 1) \div delta.num >= threshold

Raised(exc) == [exc |-> exc, evals |-> <<>>, indx |-> <<>>]

\* _discard_spurious_eigenvalues on (self.evalues_low, self.evalues_high,
\* self.use_ordinal, self.drift_threshold): what it raises, or the pair
\* (eval_low, indx) it returns
DiscardSpurious(eval_low, eval_hi, ordinal, threshold) ==
    LET low_and_indx == SortByReal(RemoveNans(eval_low))
        hi_and_indx == SortByReal(RemoveNans(eval_hi))
        low_sorted == Column0(low_and_indx)
        hi_sorted == Column0(hi_and_indx)
        n == Len(low_sorted)
        inverse_drift_ok ==
            [j \in 1..n |->
                InverseDriftExceeds(IF ordinal
                                    THEN DeltaOrdinal(low_sorted, hi_sorted, j)
                                    ELSE DeltaNear(low_sorted, hi_sorted, j),
                                    threshold)]
        kept == MaskSelect(low_and_indx, inverse_drift_ok)
    IN  IF ~HasColumns(eval_low) THEN Raised("IndexError")       \* line 345
        ELSE IF ~HasColumns(eval_hi) THEN Raised("IndexError")   \* line 346
        ELSE IF n < 2 THEN Raised("IndexError")                  \* line 353
        ELSE IF Len(hi_sorted) < n THEN Raised("IndexError")     \* line 361
        ELSE IF Len(hi_sorted) = 0 THEN Raised("ValueError")     \* line 364
        ELSE [exc |-> "", evals |-> Column0(kept), indx |-> Column1AsInt(kept)]

(***************************************************************************)
(* Calls and what they leave behind.                                       *)
(***************************************************************************)
NoValue == [kind |-> "none", rate |-> 0, index |-> 0, freq |-> 0]

\* (np.nan, np.nan, np.nan)
NanTriple == [kind |-> "nan", rate |-> 0, index |-> 0, freq |-> 0]

Triple(rate, index, freq) ==
    [kind |-> "triple", rate |-> rate, index |-> index, freq |-> freq]

Ret(op, exc, val) == [op |-> op, exc |-> exc, val |-> val]

\* every attribute the class assigns on self (lines 21-36, 53-67, 210-212,
\* 288-290, 293-323, 361-364)
InstanceAttributes ==
    {"reject", "factor", "EVP", "solver", "grid_name", "evalues", "evalues_low",
     "evalues_high", "drift_threshold", "use_ordinal", "scales", "grow_func",
     "freq_func", "pencil", "N", "target", "solver_kwargs", "evalues_index",
     "evalues_good", "EVP_hires", "hires_solver", "delta_ordinal", "delta_near",
     "pseudospectrum", "ps_real", "ps_imag"}

\* the names growth_rate can read: its parameters and locals (lines 94-107)
\* and the module's globals (lines 1-16)
GrowthRateNames ==
    {"self", "parameters", "kwargs", "gr_rate", "gr_indx", "freq",
     "CachedAttribute", "logging", "Field", "Evaluator", "FieldSystem",
     "merge_process_files", "de", "plt", "np", "interp1d", "scipy", "tools",
     "logger", "Eigenproblem"}

(***************************************************************************)
(* Eigenproblem._run_solver (lines 69-73): the solver is the external      *)
(* framework's; a run hands back an eigenvalue array or raises.            *)
(***************************************************************************)
ScenarioA_low == <<Cplx(10000, 0), Cplx(20000, 0), Cplx(1000000, 500000)>>

ScenarioA_high == <<Cplx(10001, 0), Cplx(20002, 0), Cplx(-400000, 100000)>>

ScenarioC == <<Cplx(20000, 10000), Cplx(50000, -30000), Cplx(50000, 0)>>

\* the arrays a solver run may hand back in the life of one Eigenproblem
SolverOutputs ==
    {ScenarioC,
     <<Cplx(10000, 0), Cplx(0, 0)>>,
     <<Cplx(0, 0), Cplx(0, 0)>>,
     <<NaN, Cplx(10000, 10000)>>}

\* line 73 raises LinAlgError, line 71 ArpackNoConvergence or ArpackError
SolverErrors(sparse) ==
    IF sparse THEN {"ArpackNoConvergence", "ArpackError"} ELSE {"LinAlgError"}

RunSolver(sparse) ==
    {[exc |-> "", eigs |-> a] : a \in SolverOutputs}
        \cup {[exc |-> e, eigs |-> <<>>] : e \in SolverErrors(sparse)}

(***************************************************************************)
(* Eigenproblem.solve (lines 50-67) with _reject_spurious (lines 285-290): *)
(* the exception it ends with ("" for none) and the attributes it leaves.  *)
(***************************************************************************)
Attrs(exc, low, high, good, index) ==
    [exc |-> exc, evalues_low |-> low, evalues_high |-> high,
     evalues |-> good, evalues_index |-> index]

\* lines 66-67
SolveNoReject(low) ==
    IF "evalues_lowres" \in InstanceAttributes
    THEN Attrs("", Some(low), evalues_high, Some(low), Some(Arange(Len(low))))
    ELSE Attrs("AttributeError", Some(low), evalues_high, evalues, evalues_index)

\* lines 62-64
SolveReject(low, highRun) ==
    LET d == DiscardSpurious(low, highRun.eigs, use_ordinal, drift_threshold)
    IN  IF highRun.exc # ""
        THEN Attrs(highRun.exc, Some(low), evalues_high, evalues, evalues_index)
        ELSE IF d.exc # ""
        THEN Attrs(d.exc, Some(low), Some(highRun.eigs), evalues, evalues_index)
        ELSE Attrs("", Some(low), Some(highRun.eigs), Some(d.evals), Some(d.indx))

SolveOutcome(lowRun, highRun) ==
    IF lowRun.exc # ""
    THEN Attrs(lowRun.exc, evalues_low, evalues_high, evalues, evalues_index)
    ELSE IF reject THEN SolveReject(lowRun.eigs, highRun)
    ELSE SolveNoReject(lowRun.eigs)

(***************************************************************************)
(* Eigenproblem.growth_rate (lines 94-114), grow_func and freq_func the    *)
(* defaults x.real and x.imag of line 17.                                  *)
(***************************************************************************)
\* np.max(self.grow_func(self.evalues)), evalues not empty
MaxReal(arr) ==
    CHOOSE m \in {arr[i].re : i \in 1..Len(arr)} :
        \A i \in 1..Len(arr) : arr[i].re <= m

\* np.where(self.grow_func(self.evalues) == gr_rate)[0]: positions, ascending
RECURSIVE Where(_, _, _)
Where(arr, rate, from) ==
    IF from > Len(arr) THEN <<>>
    ELSE (IF arr[from].re = rate THEN <<from - 1>> ELSE <<>>)
             \o Where(arr, rate, from + 1)

\* FirstOf taking the last position instead
LastOf(gr_indx) == gr_indx[Len(gr_indx)]

\* gr_indx[0]
FirstOf(gr_indx) == gr_indx[1]

\* lines 103-107
GrowthTriple(arr) ==
    LET gr_rate == MaxReal(arr)
        gr_indx == Where(arr, gr_rate, 1)
    IN  Triple(gr_rate, FirstOf(gr_indx), arr[FirstOf(gr_indx) + 1].im)

\* lines 110-111 and 113-114: the handler formats its warning with params
HandlerOutcome ==
    IF "params" \in GrowthRateNames
    THEN Ret("growth_rate", "", NanTriple)
    ELSE Ret("growth_rate", "NameError", NoValue)

GrowthRateOutcome(s) ==
    IF s.exc = ""
    THEN IF Len(s.evalues.arr) = 0
         THEN Ret("growth_rate", "ValueError", NoValue)      \* np.max of line 103
         ELSE Ret("growth_rate", "", GrowthTriple(s.evalues.arr))
    ELSE IF s.exc = "LinAlgError" THEN HandlerOutcome               \* line 109
    ELSE IF s.exc \in {"ArpackNoConvergence", "ArpackError"}
    THEN HandlerOutcome                                              \* line 112
    ELSE Ret("growth_rate", s.exc, NoValue)

(***************************************************************************)
(* The life of one Eigenproblem: construction, then solve() and            *)
(* growth_rate() calls in any order.                                       *)
(***************************************************************************)
\* the drift thresholds an Eigenproblem is constructed with
Thresholds == {0, 1, 1000}

\* an attribute no statement has assigned yet / one holding v
Unassigned(v) == [set |-> FALSE, val |-> v]

Assigned(v) == [set |-> TRUE, val |-> v]

\* solve's defaults for N and target (line 50)
DefaultN == 15

DefaultTarget == Cplx(0, 0)

\* before any calc_ps
NoPs == [k |-> 0, mu |-> Cplx(0, 0), shifted |-> FALSE,
         A_mu_E |-> Cplx(0, 0), Gmu |-> Cplx(0, 0)]

NoGrid == <<<<>>, <<>>>>

NoArray == [shape |-> <<0, 0>>, data |-> <<>>]

\* __init__ (lines 17-36); evalues_index, N and target are not assigned there
Init ==
    /\ reject \in BOOLEAN
    /\ use_ordinal \in BOOLEAN
    /\ drift_threshold \in Thresholds
    /\ evalues_low = None
    /\ evalues_high = None
    /\ evalues = None
    /\ evalues_index = None
    /\ solve_raised = ""
    /\ zgrid = NoGrid
    /\ Lmat = Cplx(0, 0)
    /\ pseudospectrum = NoArray
    /\ N = Unassigned(0)
    /\ target = Unassigned(Cplx(0, 0))
    /\ ps = NoPs
    /\ calls = 0
    /\ ret = Ret("init", "", NoValue)

Store(s) ==
    /\ evalues_low' = s.evalues_low
    /\ evalues_high' = s.evalues_high
    /\ evalues' = s.evalues
    /\ evalues_index' = s.evalues_index
    /\ solve_raised' = s.exc

\* lines 54-55: solve(N, target) keeps its arguments on the object
SolveArgs(n, t) ==
    /\ N' = Assigned(n)
    /\ target' = Assigned(t)

\* line 71: the arguments _run_solver hands to solve_sparse
SolveSparseCall == [N |-> N.val, target |-> target.val]

Solve(sparse, lowRun, highRun) ==
    \E s \in {SolveOutcome(lowRun, highRun)} :
        /\ SolveArgs(DefaultN, DefaultTarget)
        /\ Store(s)
        /\ ret' = Ret("solve", s.exc, NoValue)
        /\ UNCHANGED <<reject, use_ordinal, drift_threshold, zgrid, Lmat,
                       pseudospectrum, ps, calls>>

GrowthRate(sparse, lowRun, highRun) ==
    \E s \in {SolveOutcome(lowRun, highRun)} :
        /\ SolveArgs(DefaultN, DefaultTarget)
        /\ Store(s)
        /\ ret' = GrowthRateOutcome(s)
        /\ UNCHANGED <<reject, use_ordinal, drift_threshold, zgrid, Lmat,
                       pseudospectrum, ps, calls>>

Next ==
    \E sparse \in BOOLEAN :
        \E lowRun \in RunSolver(sparse), highRun \in RunSolver(sparse) :
            \/ Solve(sparse, lowRun, highRun)
            \/ GrowthRate(sparse, lowRun, highRun)

Spec == Init /\ [][Next]_vars

(***************************************************************************)
(* The rejection engine on its own: _reject_spurious (lines 285-290) run   *)
(* on an Eigenproblem whose two solver runs have handed back any pair of   *)
(* arrays.                                                                 *)
(***************************************************************************)
\* entries of a low-res array: nan, 0, 1 and 1+1j
LowVals == {NaN, Cplx(0, 0), Cplx(10000, 0), Cplx(10000, 10000)}

\* entries of a high-res array: nan, 0 and 1+1j
HighVals == {NaN, Cplx(0, 0), Cplx(10000, 10000)}

LowInputs == SeqUpTo(MaxLen, LowVals) \cup {ScenarioA_low}

HighInputs == SeqUpTo(MaxLen, HighVals) \cup {ScenarioA_high}

InitReject ==
    /\ reject = TRUE
    /\ use_ordinal \in BOOLEAN
    /\ drift_threshold \in Thresholds
    /\ evalues_low \in {Some(a) : a \in LowInputs}
    /\ evalues_high \in {Some(a) : a \in HighInputs}
    /\ evalues = None
    /\ evalues_index = None
    /\ solve_raised = ""
    /\ zgrid = NoGrid
    /\ Lmat = Cplx(0, 0)
    /\ pseudospectrum = NoArray
    /\ N = Unassigned(0)
    /\ target = Unassigned(Cplx(0, 0))
    /\ ps = NoPs
    /\ calls = 0
    /\ ret = Ret("init", "", NoValue)

\* _reject_spurious (lines 285-290)
RejectSpurious ==
    \E d \in {DiscardSpurious(evalues_low.arr, evalues_high.arr,
                              use_ordinal, drift_threshold)} :
        /\ IF d.exc = ""
           THEN /\ evalues' = Some(d.evals)
                /\ evalues_index' = Some(d.indx)
           ELSE UNCHANGED <<evalues, evalues_index>>
        /\ ret' = Ret("_reject_spurious", d.exc, NoValue)
        /\ UNCHANGED <<reject, use_ordinal, drift_threshold, evalues_low,
                       evalues_high, solve_raised, zgrid, Lmat, pseudospectrum,
                       N, target, ps, calls>>

SpecReject == InitReject /\ [][RejectSpurious]_vars

(***************************************************************************)
(* Eigenproblem._pseudo (lines 214-238) on a 1 x 1 matrix L, for which     *)
(* np.linalg.norm(z*np.eye(1) - L, ord=-2) is |z - L|.                     *)
(***************************************************************************)
\* np.zeros((rows, cols))
Zeros(rows, cols) ==
    [shape |-> <<rows, cols>>, data |-> [r \in 1..rows |-> [c \in 1..cols |-> 0]]]

\* lines 234-237 from the k-th pass of the loop body on: pass k has
\* j = k div len(xx) (outer loop over yy) and i = k mod len(xx) (inner loop
\* over xx); R[j, i] = ... raises when j or i is out of R's range
RECURSIVE PseudoLoop(_, _, _, _, _)
PseudoLoop(R, L, xx, yy, k) ==
    IF k = Len(xx) * Len(yy) THEN [exc |-> "", R |-> R]
    ELSE LET j == k \div Len(xx)
             i == k % Len(xx)
             z == Cplx(xx[i + 1], yy[j + 1])
         IN  IF j >= R.shape[1] \/ i >= R.shape[2]
             THEN [exc |-> "IndexError", R |-> R]
             ELSE PseudoLoop([R EXCEPT !.data[j + 1][i + 1] = Abs(CSub(z, L))],
                             L, xx, yy, k + 1)

\* lines 230-238
PseudoOutcome(L, grid) ==
    LET xx == grid[1]
        yy == grid[2]
    IN  PseudoLoop(Zeros(Len(xx), Len(yy)), L, xx, yy, 0)

\* grid coordinates: 0 and 1
GridPoints == {0, 10000}

\* the points along one axis of a grid: at least one
GridAxes == SeqUpTo(MaxGrid, GridPoints) \ {<<>>}

InitPseudo ==
    /\ reject = TRUE
    /\ use_ordinal = FALSE
    /\ drift_threshold \in Thresholds
    /\ evalues_low = None
    /\ evalues_high = None
    /\ evalues = None
    /\ evalues_index = None
    /\ solve_raised = ""
    /\ zgrid \in GridAxes \X GridAxes
    /\ Lmat \in {Cplx(10000, 0), Cplx(20000, 10000)}
    /\ pseudospectrum = NoArray
    /\ N = Unassigned(0)
    /\ target = Unassigned(Cplx(0, 0))
    /\ ps = NoPs
    /\ calls = 0
    /\ ret = Ret("init", "", NoValue)

Pseudo ==
    \E p \in {PseudoOutcome(Lmat, zgrid)} :
        /\ pseudospectrum' = IF p.exc = "" THEN p.R ELSE pseudospectrum
        /\ ret' = Ret("_pseudo", p.exc, NoValue)
        /\ UNCHANGED <<reject, use_ordinal, drift_threshold, evalues_low,
                       evalues_high, evalues, evalues_index, solve_raised,
                       zgrid, Lmat, N, target, ps, calls>>

SpecPseudo == InitPseudo /\ [][Pseudo]_vars

(***************************************************************************)
(* calc_ps (lines 178-212): a sparse solve for k eigenmodes, the shifted   *)
(* and inverted Schur factor Gmu built from its eigenvectors, and the      *)
(* pseudospectrum of Gmu on the grid.  The factorisations of lines         *)
(* 191-203 are numpy's and scipy's; the model takes their outcome, the     *)
(* inverse of Ghat, from a set, and like _pseudo above keeps one entry of  *)
(* the matrix.                                                             *)
(***************************************************************************)
CAdd(a, b) == Cplx(a.re + b.re, a.im + b.im)

\* the centre points mu: 0 and 1
Shifts == {Cplx(0, 0), Cplx(10000, 0)}

\* np.linalg.inv(Ghat) (line 207): 1
InvGhat == {Cplx(10000, 0)}

\* the grids handed to calc_ps: every point 0, one to MaxGrid points an axis
CalcGrids ==
    {g \in GridAxes \X GridAxes :
        /\ \A i \in 1..Len(g[1]) : g[1][i] = 0
        /\ \A j \in 1..Len(g[2]) : g[2][j] = 0}

CalcPs(k, mu, grid, h, lowRun, highRun) ==
    /\ calls < MaxCalls
    /\ \E s \in {SolveOutcome(lowRun, highRun)} :
        /\ calls' = calls + 1
        /\ SolveArgs(k, DefaultTarget)                               \* line 190
        /\ Store(s)
        /\ IF s.exc # ""
           THEN /\ ps' = [NoPs EXCEPT !.k = k, !.mu = mu]
                /\ ret' = Ret("calc_ps", s.exc, NoValue)
                /\ UNCHANGED <<zgrid, Lmat, pseudospectrum>>
           ELSE \E p \in {PseudoOutcome(CAdd(h, mu), grid)} :
                /\ ps' = [k |-> k, mu |-> mu, shifted |-> TRUE,
                          A_mu_E |-> mu,                             \* line 201
                          Gmu |-> mu]                                \* line 207
                /\ Lmat' = CAdd(h, mu)                               \* line 207
                /\ zgrid' = grid                                     \* line 209
                /\ pseudospectrum' = IF p.exc = "" THEN p.R         \* line 210
                                     ELSE pseudospectrum
                /\ ret' = Ret("calc_ps", p.exc, NoValue)
        /\ UNCHANGED <<reject, use_ordinal, drift_threshold>>

\* line 190 passes sparse=True to solve, so both runs are sparse ones
NextCalcPs ==
    \E k \in 1..MaxModes, mu \in Shifts, grid \in CalcGrids, h \in InvGhat :
        \E lowRun \in RunSolver(TRUE), highRun \in RunSolver(TRUE) :
            CalcPs(k, mu, grid, h, lowRun, highRun)

SpecCalcPs == Init /\ [][NextCalcPs]_vars

(***************************************************************************)
(* Properties.                                                             *)
(***************************************************************************)
AllSolverErrors == SolverErrors(TRUE) \cup SolverErrors(FALSE)

\* every stored index is a position of low and names the stored eigenvalue
IndexMapsInto(low, good, index) ==
    /\ Len(index) = Len(good)
    /\ \A i \in 1..Len(good) :
          /\ index[i] \in 0..(Len(low) - 1)
          /\ low[index[i] + 1] = good[i]

\* the accepted set as (eigenvalue, original index) pairs
AcceptedSet(evals, indx) == {<<evals[i], indx[i]>> : i \in 1..Len(evals)}

FiniteCount(arr) == Cardinality({i \in 1..Len(arr) : IsFinite(arr[i])})

\* C1 (as claimed): with reject=False, a solve() whose low-res solver run
\* succeeds completes without error and leaves evalues equal to evalues_low
\* with evalues_index[i] = i for every position i.
C1_NoRejectKeepsAll ==
    (~reject /\ ret.op = "solve" /\ solve_raised \notin AllSolverErrors)
        => /\ ret.exc = ""
           /\ evalues_low.some
           /\ evalues = evalues_low
           /\ evalues_index = Some(Arange(Len(evalues_low.arr)))

\* C2 (as claimed): when the solve() inside growth_rate() raises the dense
\* failure or a sparse ARPACK error, growth_rate() returns (nan, nan, nan)
\* and no exception reaches the caller.
C2_SolverFailureGivesNan ==
    (ret.op = "growth_rate" /\ solve_raised \in AllSolverErrors)
        => ret = Ret("growth_rate", "", NanTriple)

\* C3 (as claimed): when solve() succeeds and the accepted set is empty,
\* growth_rate() returns (nan, nan, nan) and does not raise.
C3_EmptyAcceptedGivesNan ==
    (ret.op = "growth_rate" /\ solve_raised = "" /\ evalues.arr = <<>>)
        => ret = Ret("growth_rate", "", NanTriple)

\* C4 (as claimed): with fewer than 2 finite low-res eigenvalues the
\* rejection step raises ValueError (not an index error, and it does not
\* return an empty accepted set).
C4_TooFewRaisesValueError ==
    (ret.op = "_reject_spurious" /\ FiniteCount(evalues_low.arr) < 2)
        => ret.exc = "ValueError"

\* C5: whenever rejection completes, every returned index is a valid position
\* of the raw low-res array, the raw array holds the accepted eigenvalue
\* there, and no index is returned twice.
C5_IndexMapping ==
    (ret.op = "_reject_spurious" /\ ret.exc = "")
        => /\ IndexMapsInto(evalues_low.arr, evalues.arr, evalues_index.arr)
           /\ \A i, k \in 1..Len(evalues_index.arr) :
                 evalues_index.arr[i] = evalues_index.arr[k] => i = k

\* C5's case: a non-finite entry was dropped and the sort moved a later
\* entry ahead of an earlier one, both accepted
C5_Witness ==
    /\ ret.op = "_reject_spurious" /\ ret.exc = ""
    /\ \E i \in 1..Len(evalues_low.arr) : ~IsFinite(evalues_low.arr[i])
    /\ Len(evalues_index.arr) >= 2
    /\ evalues_index.arr[1] > evalues_index.arr[2]

RanOnScenarioA ==
    /\ ret.op = "_reject_spurious"
    /\ evalues_low.arr = ScenarioA_low
    /\ evalues_high.arr = ScenarioA_high
    /\ drift_threshold = 1000

FirstTwoAccepted ==
    /\ ret.exc = ""
    /\ evalues.arr = <<Cplx(10000, 0), Cplx(20000, 0)>>
    /\ evalues_index.arr = <<0, 1>>

\* C6 (as claimed): on scenario A with drift_threshold=1e3 rejection accepts
\* exactly the low-res eigenvalues at indices 0 and 1, with use_ordinal=True
\* and with use_ordinal=False alike.
C6_ScenarioA_BothAgree == RanOnScenarioA => FirstTwoAccepted

\* C6 (amended): on scenario A with drift_threshold=1e3 rejection accepts
\* exactly the low-res eigenvalues at indices 0 and 1 with use_ordinal=False,
\* and accepts none with use_ordinal=True (sorted by real part, -40+10j is the
\* first high-res entry, so equal ranks do not pair 1 with 1.0001).
C6_ScenarioA ==
    RanOnScenarioA
        => IF use_ordinal
           THEN ret.exc = "" /\ evalues.arr = <<>> /\ evalues_index.arr = <<>>
           ELSE FirstTwoAccepted

C6_Witness == RanOnScenarioA /\ use_ordinal /\ ret.exc = "" /\ evalues.some

\* C8: with the arrays and use_ordinal fixed, the accepted set at a larger
\* drift_threshold is a subset of the accepted set at a smaller one: the set
\* stored for drift_threshold contains the set of every threshold above it
\* and is contained in the set of every threshold below it.
C8_ThresholdMonotone ==
    (ret.op = "_reject_spurious" /\ ret.exc = "")
        => \A t \in Thresholds :
              LET r == DiscardSpurious(evalues_low.arr, evalues_high.arr,
                                       use_ordinal, t)
                  stored == AcceptedSet(evalues.arr, evalues_index.arr)
                  other == AcceptedSet(r.evals, r.indx)
              IN  /\ r.exc = ""
                  /\ t >= drift_threshold => other \subseteq stored
                  /\ t <= drift_threshold => stored \subseteq other

\* C8's case: a larger threshold keeps some of the stored set and drops some
C8_Witness ==
    /\ ret.op = "_reject_spurious" /\ ret.exc = ""
    /\ \E t \in Thresholds :
          LET r == DiscardSpurious(evalues_low.arr, evalues_high.arr,
                                   use_ordinal, t)
          IN  /\ t > drift_threshold
              /\ Len(r.indx) > 0
              /\ Len(r.indx) < Len(evalues_index.arr)

\* C7: for a non-empty accepted set growth_rate() returns the largest real
\* part of the accepted set, the smallest position attaining it, and the
\* imaginary part of the eigenvalue there; on [2+1j, 5-3j, 5+0j] that is
\* (5, 1, -3).
C7_GrowthRate ==
    (ret.op = "growth_rate" /\ solve_raised = "" /\ Len(evalues.arr) > 0)
        => /\ ret.exc = ""
           /\ ret.val.kind = "triple"
           /\ ret.val.index \in 0..(Len(evalues.arr) - 1)
           /\ evalues.arr[ret.val.index + 1].re = ret.val.rate
           /\ evalues.arr[ret.val.index + 1].im = ret.val.freq
           /\ \A i \in 1..Len(evalues.arr) :
                 /\ evalues.arr[i].re <= ret.val.rate
                 /\ i - 1 < ret.val.index => evalues.arr[i].re < ret.val.rate
           /\ evalues.arr = ScenarioC => ret.val = Triple(50000, 1, -30000)

C7_Witness ==
    /\ ret.op = "growth_rate" /\ ret.exc = ""
    /\ solve_raised = ""
    /\ evalues.arr = ScenarioC

\* C9 (as claimed): for every grid of nx real and ny imaginary points _pseudo
\* completes and returns ny rows of nx columns whose entry [j, i] is the value
\* computed for z = real[i] + 1j*imag[j].
C9_PseudoGrid ==
    ret.op = "_pseudo"
        => /\ ret.exc = ""
           /\ pseudospectrum.shape = <<Len(zgrid[2]), Len(zgrid[1])>>
           /\ \A j \in 1..Len(zgrid[2]), i \in 1..Len(zgrid[1]) :
                 pseudospectrum.data[j][i]
                     = Abs(CSub(Cplx(zgrid[1][i], zgrid[2][j]), Lmat))

\* C10 (as claimed): with reject=True, whenever an accepted set is stored it
\* was computed from the stored evalues_low: every evalues_index[i] is a
\* position of evalues_low and evalues_low[evalues_index[i]] = evalues[i].
C10_AcceptedMatchesLow ==
    (reject /\ evalues.some)
        => /\ evalues_low.some
           /\ evalues_index.some
           /\ IndexMapsInto(evalues_low.arr, evalues.arr, evalues_index.arr)

\* C11 (as claimed): after a calc_ps(k, zgrid, mu) whose solve went through,
\* for every k and mu, the sparse solve was asked for exactly k eigenvalues
\* with target mu, and the same mu was used in A - mu*E and in
\* Gmu = inv(Ghat) + mu*I.
C11_SparseRequestAtMu ==
    (ret.op = "calc_ps" /\ ps.shifted)
        => /\ SolveSparseCall = [N |-> ps.k, target |-> ps.mu]
           /\ ps.A_mu_E = ps.mu
           /\ ps.Gmu = ps.mu

=============================================================================
